---- MODULE Spec2Model ----
(***************************************************************************)
(* Model of eng_to_ru.Translator (src/src/eng_to_ru/eng_to_ru.py).         *)
(*                                                                         *)
(* Strings.  A Python str is modelled as its run-length encoding: a        *)
(* sequence of runs <<c, n>> (n >= 1 copies of the character c) in which   *)
(* adjacent runs carry different characters.  Every str has exactly one    *)
(* such encoding, so equality of encodings is equality of strings, and     *)
(* paragraphs of several thousand characters stay small values.  The       *)
(* string operations the program uses (len, +, [:-1], split("\n"),         *)
(* "\n".join, re.fullmatch) are defined on the encoding by what they do    *)
(* to the characters.  A character is written as a one-character string;   *)
(* a character that has no such notation is written by its code point, as  *)
(* in "U+000B" for the vertical tab.                                       *)
(***************************************************************************)
EXTENDS Integers, Sequences, FiniteSets, TLC

VARIABLES
    pc,                      \* position of the operation being executed
    text,                    \* the str argument of _prepare / run
    prepare_at,              \* _prepare: where the generator is suspended
    paragraphs,              \* _prepare: paragraphs of text.split("\n") not yet visited
    paragraph,               \* _prepare: the paragraph of the current iteration
    tmp,                     \* _prepare: the buffer tmp
    chunks,                  \* _prepare: the chunks yielded so far
    batches_at,              \* _get_batches: where the generator is suspended
    data_iterator,           \* _get_batches: the elements of a list handed to it
    i,                       \* _get_batches: enumerate index of the next element
    batch,                   \* _get_batches: the list batch
    yielded,                 \* _get_batches: the batches yielded so far
    batch_size,              \* self._batch_size
    max_retries,             \* self._max_retries
    log_prefix,              \* self._log_prefix
    translator,              \* behaviour of the external translate_batch
    batches,                 \* _translate: the batches taken from batches_iterator
    bi,                      \* _translate: number of batches taken from the iterator
    answer,                  \* _translate: answer
    len_of_translated_text,  \* _translate: len_of_translated_text
    len_of_text,             \* _translate: len_of_text
    retries,                 \* _translate: retries
    success,                 \* _translate: success
    result,                  \* what run returned
    invocations,             \* history: per batch, the outcome of each translate_batch call
    log                      \* history: records sent to logging, and sleeps

vars == <<pc, text, prepare_at, paragraphs, paragraph, tmp, chunks,
          batches_at, data_iterator, i, batch, yielded,
          batch_size, max_retries, log_prefix, translator, batches, bi, answer,
          len_of_translated_text, len_of_text, retries, success, result,
          invocations, log>>

prepareVars == <<text, prepare_at, paragraphs, paragraph, tmp, chunks>>
batcherVars == <<batches_at, data_iterator, i, batch, yielded>>
configVars  == <<batch_size, max_retries, log_prefix, translator>>
runVars     == <<batches, bi, answer, len_of_translated_text, len_of_text,
                 retries, success, result, invocations, log>>

(***************************************************************************)
(* Bounds of the model.                                                    *)
(***************************************************************************)
MaxParagraphs == 3      \* paragraphs per input text
MaxChunks     == 4      \* elements of a sequence handed to _get_batches
MaxBatchSize  == 2      \* largest batch_size tried
MaxRetries    == 3      \* largest max_retries tried

(***************************************************************************)
(* Program constants.                                                      *)
(***************************************************************************)
ChunkLimit == 5000      \* the 5000 of _prepare
SleepSeconds == 10      \* time.sleep(10)

(***************************************************************************)
(* str operations on the run-length encoding.                              *)
(***************************************************************************)
EmptyStr == <<>>
NL == <<<<"\n", 1>>>>                       \* the str "\n"
Rep(c, n) == IF n = 0 THEN EmptyStr ELSE <<<<c, n>>>>   \* c * n

RECURSIVE StrLen(_)
\* len(s)
StrLen(s) == IF s = <<>> THEN 0 ELSE Head(s)[2] + StrLen(Tail(s))

\* s + t
Concat(s, t) ==
    IF s = <<>> THEN t
    ELSE IF t = <<>> THEN s
    ELSE IF s[Len(s)][1] = t[1][1]
         THEN SubSeq(s, 1, Len(s) - 1)
              \o <<<<t[1][1], s[Len(s)][2] + t[1][2]>>>>
              \o Tail(t)
         ELSE s \o t

\* s[:-1]
DropLast(s) ==
    IF s = <<>> THEN <<>>
    ELSE IF s[Len(s)][2] = 1
         THEN SubSeq(s, 1, Len(s) - 1)
         ELSE SubSeq(s, 1, Len(s) - 1) \o <<<<s[Len(s)][1], s[Len(s)][2] - 1>>>>

RECURSIVE SplitRec(_, _, _)
\* s.split("\n"), with cur the paragraph being read and acc those completed
SplitRec(s, cur, acc) ==
    IF s = <<>> THEN Append(acc, cur)
    ELSE IF Head(s)[1] = "\n"
         THEN SplitRec(Tail(s), <<>>,
                       Append(acc, cur) \o [j \in 1..(Head(s)[2] - 1) |-> <<>>])
         ELSE SplitRec(Tail(s), Append(cur, Head(s)), acc)

\* s.split("\n")
SplitNL(s) == SplitRec(s, <<>>, <<>>)

RECURSIVE JoinNL(_)
\* "\n".join(strs)
JoinNL(strs) ==
    IF strs = <<>> THEN EmptyStr
    ELSE IF Len(strs) = 1 THEN strs[1]
    ELSE Concat(Concat(strs[1], NL), JoinNL(Tail(strs)))

RECURSIVE SumLen(_)
\* sum(len(s) for s in strs)
SumLen(strs) == IF strs = <<>> THEN 0 ELSE StrLen(Head(strs)) + SumLen(Tail(strs))

RECURSIVE Flatten(_)
\* the concatenation of a sequence of lists
Flatten(lists) == IF lists = <<>> THEN <<>> ELSE Head(lists) \o Flatten(Tail(lists))

(***************************************************************************)
(* Inputs.  Paragraphs are drawn from a pool holding the empty paragraph,  *)
(* short ones, two lengths that fill a chunk to the edge of the flush      *)
(* condition (2497 + 1 + 2497 + 2 < 5000 <= 2497 + 1 + 2498 + 2) and       *)
(* lengths around the limit; a text is one to MaxParagraphs of them joined *)
(* by                                                                      *)
(* "\n" (so the empty text, one empty paragraph, is among the inputs).     *)
(***************************************************************************)
ParagraphPool ==
    { EmptyStr,
      Rep("a", 1),
      Rep("7", 1) \o Rep(".", 1),
      Rep("a", 2497),
      Rep("a", 2498),
      Rep("a", 4997),
      Rep("a", 4998),
      Rep("a", 5001) }

SeqsUpTo(S, n) == UNION { [1..m -> S] : m \in 1..n }

Texts == { JoinNL(ps) : ps \in SeqsUpTo(ParagraphPool, MaxParagraphs) }

(***************************************************************************)
(* Translator._prepare, as the list of the chunks it yields: each step of  *)
(* the fold visits one paragraph, and the last yields what is left in the  *)
(* buffer.                                                                 *)
(***************************************************************************)
\* the flush condition with len(tmp) left out
MustFlushIgnoringBuffer(par, buf) == StrLen(par) + 2 >= ChunkLimit

\* a flush condition that closes the chunk before every paragraph
MustFlushEveryParagraph(par, buf) == buf # EmptyStr

\* if len(paragraph) + len(tmp) + 2 >= 5000
MustFlush(par, buf) == StrLen(par) + StrLen(buf) + 2 >= ChunkLimit

\* one iteration of the for loop: the buffer and the chunks after it
PrepareStep(par, buf, out) ==
    IF MustFlush(par, buf)
    THEN [tmp |-> Concat(EmptyStr, Concat(par, NL)),
          out |-> Append(out, DropLast(buf))]
    ELSE [tmp |-> Concat(buf, Concat(par, NL)),
          out |-> out]

RECURSIVE PrepareRec(_, _, _)
PrepareRec(ps, buf, out) ==
    IF ps = <<>> THEN Append(out, DropLast(buf))
    ELSE PrepareRec(Tail(ps), PrepareStep(Head(ps), buf, out).tmp,
                    PrepareStep(Head(ps), buf, out).out)

\* list(self._prepare(t))
_prepare(t) == PrepareRec(SplitNL(t), EmptyStr, <<>>)

(***************************************************************************)
(* The generator object of _prepare.  It is created without running any    *)
(* of the body, and each next() runs the body up to the next yield, where  *)
(* it stays suspended with its locals: at line 59 with the paragraph of    *)
(* the current iteration in hand and tmp not yet reset, or at line 62      *)
(* after the loop.  A next() on the generator suspended at line 62 ends    *)
(* it.  A local that is not bound yet is shown as the empty value.  The    *)
(* result of next() is the generator after it and out, <<chunk>> for a     *)
(* yield and <<>> for StopIteration.                                       *)
(***************************************************************************)
Generator(t, at, ps, p, buf) ==
    [kind |-> "generator", text |-> t, at |-> at, paragraphs |-> ps,
     paragraph |-> p, tmp |-> buf]

\* self._prepare(t)
NewPrepare(t) == Generator(t, "created", <<>>, EmptyStr, EmptyStr)

RECURSIVE PrepareFor(_, _, _, _)
\* the for loop from its head, with ps still to visit, up to the next yield
PrepareFor(t, ps, p, buf) ==
    IF ps = <<>>
    THEN [it |-> Generator(t, "line 62", ps, p, buf), out |-> <<DropLast(buf)>>]
    ELSE IF MustFlush(Head(ps), buf)
    THEN [it |-> Generator(t, "line 59", Tail(ps), Head(ps), buf),
          out |-> <<DropLast(buf)>>]
    ELSE PrepareFor(t, Tail(ps), Head(ps), Concat(buf, Concat(Head(ps), NL)))

\* next(g) for the generator g of _prepare
PrepareNext(g) ==
    IF g.at = "created"
    THEN PrepareFor(g.text, SplitNL(g.text), g.paragraph, EmptyStr)
    ELSE IF g.at = "line 59"
    THEN PrepareFor(g.text, g.paragraphs, g.paragraph,
                    Concat(EmptyStr, Concat(g.paragraph, NL)))
    ELSE [it |-> [g EXCEPT !.at = "finished"], out |-> <<>>]

\* iter(items) for a list
ListIterator(items) == [kind |-> "list_iterator", items |-> items]

\* next(it) for an iterator handed to _get_batches
IteratorNext(it) ==
    IF it.kind = "generator" THEN PrepareNext(it)
    ELSE IF it.items = <<>> THEN [it |-> it, out |-> <<>>]
    ELSE [it |-> ListIterator(Tail(it.items)), out |-> <<Head(it.items)>>]


(***************************************************************************)
(* Translator._get_batches, as the list of the batches it yields.          *)
(***************************************************************************)
\* the yield condition with i in place of i + 1
BatchFullOffByOne(idx, bs) == idx % bs = 0

\* if (i + 1) % self._batch_size == 0
BatchFull(idx, bs) == (idx + 1) % bs = 0

\* one iteration of the for loop: the list batch and the batches after it
BatchStep(elem, idx, b, out, bs) ==
    IF BatchFull(idx, bs)
    THEN [batch |-> <<>>, out |-> Append(out, Append(b, elem))]
    ELSE [batch |-> Append(b, elem), out |-> out]

\* if batch: yield batch
BatchTail(b, out) == IF b # <<>> THEN Append(out, b) ELSE out

RECURSIVE BatchesRec(_, _, _, _, _)
BatchesRec(data, idx, b, out, bs) ==
    IF data = <<>> THEN BatchTail(b, out)
    ELSE BatchesRec(Tail(data), idx + 1,
                    BatchStep(Head(data), idx, b, out, bs).batch,
                    BatchStep(Head(data), idx, b, out, bs).out, bs)

\* list(self._get_batches(iter(data)))
_get_batches(data, bs) == BatchesRec(data, 0, <<>>, <<>>, bs)

(***************************************************************************)
(* The generator object of _get_batches.  Each next() runs the body up to  *)
(* the next yield, taking from data_iterator only the elements it needs:   *)
(* it stays suspended at line 80 with batch still holding the yielded      *)
(* elements (batch = [] runs on the next next()), or at line 83 after the  *)
(* loop.  The result of next() is the position, data_iterator, the         *)
(* enumerate index and batch after it, and out, <<batch>> for a yield and  *)
(* <<>> for StopIteration.                                                 *)
(***************************************************************************)
RECURSIVE BatchesFor(_, _, _, _)
\* the for loop from its head up to the next yield, with idx the enumerate
\* index of the next element
BatchesFor(it, idx, b, bs) ==
    LET r == IteratorNext(it)
    IN  IF r.out = <<>>
        THEN IF b # <<>>
             THEN [at |-> "line 83", it |-> r.it, i |-> idx, batch |-> b,
                   out |-> <<b>>]
             ELSE [at |-> "finished", it |-> r.it, i |-> idx, batch |-> b,
                   out |-> <<>>]
        ELSE IF BatchFull(idx, bs)
        THEN [at |-> "line 80", it |-> r.it, i |-> idx + 1,
              batch |-> Append(b, r.out[1]), out |-> <<Append(b, r.out[1])>>]
        ELSE BatchesFor(r.it, idx + 1, Append(b, r.out[1]), bs)

\* next() for the generator of _get_batches suspended at position at
BatchesNext(at, it, idx, b, bs) ==
    IF at = "created" THEN BatchesFor(it, idx, <<>>, bs)
    ELSE IF at = "line 80" THEN BatchesFor(it, idx, <<>>, bs)
    ELSE [at |-> "finished", it |-> it, i |-> idx, batch |-> b, out |-> <<>>]

(***************************************************************************)
(* Translator.is_digits_and_punctuation                                    *)
(***************************************************************************)
Digits      == {"0", "1", "2", "3", "4", "5", "6", "7", "8", "9"}
Punctuation == {".", ",", ";", ":", "!", "?", "-", "(", ")", "[", "]",
                "{", "}", "'", "\""}
\* \s of a str pattern: the characters for which str.isspace() is true
Whitespace  == {" ", "\t", "\n", "\r", "\f", "U+000B",
                "U+001C", "U+001D", "U+001E", "U+001F", "U+0085", "U+00A0",
                "U+1680", "U+2000", "U+2001", "U+2002", "U+2003", "U+2004",
                "U+2005", "U+2006", "U+2007", "U+2008", "U+2009", "U+200A",
                "U+2028", "U+2029", "U+202F", "U+205F", "U+3000"}
\* the character class of the pattern
PatternClass == Digits \cup Punctuation \cup Whitespace

\* the pattern ^[...]+$ : one or more characters of the class
PatternMatches(s) == s # <<>> /\ \A j \in 1..Len(s) : s[j][1] \in PatternClass

\* bool(re.fullmatch(pattern, text))
is_digits_and_punctuation(s) == PatternMatches(s)

(***************************************************************************)
(* The external GoogleTranslator.translate_batch.  When it returns, it     *)
(* returns one string per element, in order; the model's en -> ru          *)
(* translator replaces the letter "a" by "b" and keeps every other         *)
(* character, so a translation differs from its source.                    *)
(* Whether an invocation returns or raises is chosen per invocation.       *)
(***************************************************************************)
TranslateChar(c) == IF translator = "en_ru" /\ c = "a" THEN "b" ELSE c
TranslateStr(s) == [j \in 1..Len(s) |-> <<TranslateChar(s[j][1]), s[j][2]>>]
translate_batch(b) == [j \in 1..Len(b) |-> TranslateStr(b[j])]

(***************************************************************************)
(* Specification SpecPrepare: one call of _prepare on a text.              *)
(***************************************************************************)
\* what run has returned: nothing yet, None, or a str
Pending == [kind |-> "pending", value |-> <<>>]
None == [kind |-> "None", value |-> <<>>]         \* return None
Str(s) == [kind |-> "str", value |-> s]           \* return s

IdleRun ==
    /\ batches = <<>> /\ bi = 0 /\ answer = EmptyStr
    /\ len_of_translated_text = 0 /\ len_of_text = 0
    /\ retries = 0 /\ success = FALSE
    /\ result = Pending
    /\ invocations = <<>> /\ log = <<>>

IdlePrepare ==
    /\ text = EmptyStr /\ prepare_at = "created" /\ paragraphs = <<>>
    /\ paragraph = EmptyStr /\ tmp = EmptyStr /\ chunks = <<>>

IdleBatcher ==
    /\ batches_at = "created" /\ data_iterator = <<>> /\ i = 0
    /\ batch = <<>> /\ yielded = <<>>

\* the generator of _prepare as the variables hold it
PrepareGenerator == Generator(text, prepare_at, paragraphs, paragraph, tmp)

\* for chunk in self._prepare(text): the generator has just been created
InitPrepare ==
    /\ pc = "prepare_for"
    /\ text \in Texts
    /\ prepare_at = "created"
    /\ paragraphs = <<>>
    /\ paragraph = EmptyStr
    /\ tmp = EmptyStr
    /\ chunks = <<>>
    /\ batch_size = 1 /\ max_retries = 0 /\ log_prefix = ">" /\ translator = "en_ru"
    /\ IdleBatcher /\ IdleRun

\* the generator goes to the state next() leaves it in
PrepareAdvance ==
    /\ prepare_at' = PrepareNext(PrepareGenerator).it.at
    /\ paragraphs' = PrepareNext(PrepareGenerator).it.paragraphs
    /\ paragraph' = PrepareNext(PrepareGenerator).it.paragraph
    /\ tmp' = PrepareNext(PrepareGenerator).it.tmp

\* next() runs the generator to a yield: line 59 or line 62
PrepareYields ==
    /\ pc = "prepare_for"
    /\ PrepareNext(PrepareGenerator).out # <<>>
    /\ PrepareAdvance
    /\ chunks' = chunks \o PrepareNext(PrepareGenerator).out
    /\ UNCHANGED <<pc, text, batcherVars, configVars, runVars>>

\* next() runs the generator to its end: StopIteration
PrepareStops ==
    /\ pc = "prepare_for"
    /\ PrepareNext(PrepareGenerator).out = <<>>
    /\ PrepareAdvance
    /\ pc' = "prepare_done"
    /\ UNCHANGED <<text, chunks, batcherVars, configVars, runVars>>

NextPrepare == PrepareYields \/ PrepareStops

SpecPrepare == InitPrepare /\ [][NextPrepare]_vars

(***************************************************************************)
(* Specification SpecBatches: one call of _get_batches on the iterator of  *)
(* a list; the elements of the list from index i on are those the iterator *)
(* has not handed out yet.                                                 *)
(***************************************************************************)
ChunkPool == { EmptyStr, Rep("a", 1), Rep("a", 2) }

ChunkSeqs == { <<>> } \cup SeqsUpTo(ChunkPool, MaxChunks)

\* for batch in self._get_batches(iter(data)): the generator has just been
\* created
InitBatches ==
    /\ pc = "batches_for"
    /\ data_iterator \in ChunkSeqs
    /\ batch_size \in 1..(MaxBatchSize + 1)
    /\ batches_at = "created"
    /\ i = 0
    /\ batch = <<>>
    /\ yielded = <<>>
    /\ max_retries = 0 /\ log_prefix = ">" /\ translator = "en_ru"
    /\ IdlePrepare /\ IdleRun

\* what next() on the generator of _get_batches gives, reading the list
BatchesFromList ==
    BatchesNext(batches_at,
                ListIterator(SubSeq(data_iterator, i + 1, Len(data_iterator))),
                i, batch, batch_size)

\* next() runs the generator to a yield: line 80 or line 83
BatchesYields ==
    /\ pc = "batches_for"
    /\ BatchesFromList.out # <<>>
    /\ batches_at' = BatchesFromList.at
    /\ i' = BatchesFromList.i
    /\ batch' = BatchesFromList.batch
    /\ yielded' = yielded \o BatchesFromList.out
    /\ UNCHANGED <<pc, data_iterator, prepareVars, configVars, runVars>>

\* next() runs the generator to its end: StopIteration
BatchesStops ==
    /\ pc = "batches_for"
    /\ BatchesFromList.out = <<>>
    /\ batches_at' = BatchesFromList.at
    /\ i' = BatchesFromList.i
    /\ batch' = BatchesFromList.batch
    /\ pc' = "batches_done"
    /\ UNCHANGED <<data_iterator, yielded, prepareVars, configVars, runVars>>

NextBatches == BatchesYields \/ BatchesStops

SpecBatches == InitBatches /\ [][NextBatches]_vars


(***************************************************************************)
(* Specification Spec: one call of Translator.run on a configured          *)
(* instance.  _translate is followed statement by statement; the external  *)
(* call and time.sleep are the points where the run can be observed.  The  *)
(* two generators are created at line 98 and run inside the for statement  *)
(* of line 104, one next() per iteration, so a batch and its chunks are    *)
(* produced only after the batch before it has been dealt with.  There     *)
(* data_iterator is the generator of _prepare, held by prepare_at,         *)
(* paragraphs, paragraph and tmp, and the variable data_iterator stays     *)
(* empty.                                                                  *)
(***************************************************************************)
RunParagraphPool ==
    { EmptyStr,
      Rep("a", 1),
      Rep("7", 1) \o Rep(".", 1) \o Rep("U+000B", 1),
      Rep("a", 2499),
      Rep("a", 4998) }

RunTexts == { JoinNL(ps) : ps \in SeqsUpTo(RunParagraphPool, MaxParagraphs) }

Info(m, a, b) == [level |-> "info", msg |-> m, a |-> a, b |-> b]
Error(m, a, b) == [level |-> "error", msg |-> m, a |-> a, b |-> b]
Slept(n) == [level |-> "sleep", msg |-> "time.sleep", a |-> n, b |-> 0]

Init ==
    /\ pc = "run"
    /\ text \in RunTexts
    /\ batch_size \in 1..MaxBatchSize
    /\ max_retries \in 0..MaxRetries
    /\ log_prefix = ">"
    /\ translator = "en_ru"
    /\ prepare_at = "created" /\ paragraphs = <<>> /\ paragraph = EmptyStr
    /\ tmp = EmptyStr /\ chunks = <<>>
    /\ IdleBatcher /\ IdleRun

\* run: if self.is_digits_and_punctuation(text): ... return text
RunShortCircuit ==
    /\ pc = "run"
    /\ is_digits_and_punctuation(text)
    /\ log' = log \o << Info("---", 0, 0), Info("description", 0, 0),
                        Info("translated 100%", 0, 0) >>
    /\ result' = Str(text)
    /\ pc' = "returned"
    /\ UNCHANGED <<prepareVars, batcherVars, configVars, batches, bi, answer,
                   len_of_translated_text, len_of_text, retries, success,
                   invocations>>

\* an accumulator that starts from what the previous call left in it
InitialAnswerStale(previous) == previous

\* answer = "": a local of _translate, assigned at the start of each call
InitialAnswer(previous) == EmptyStr

\* run: return self._translate(text), up to the for statement of
\* _translate; line 98 creates the two generators and runs none of them
RunTranslate ==
    /\ pc = "run"
    /\ ~ is_digits_and_punctuation(text)
    /\ answer' = InitialAnswer(answer)
    /\ prepare_at' = NewPrepare(text).at
    /\ paragraphs' = NewPrepare(text).paragraphs
    /\ paragraph' = NewPrepare(text).paragraph
    /\ tmp' = NewPrepare(text).tmp
    /\ chunks' = <<>>
    /\ batches_at' = "created"
    /\ i' = 0
    /\ batch' = <<>>
    /\ yielded' = <<>>
    /\ batches' = <<>>
    /\ len_of_translated_text' = 0
    /\ len_of_text' = StrLen(text)
    /\ log' = log \o << Info("---", 0, 0), Info("description", 0, 0),
                        Info("text length", StrLen(text), 0) >>
    /\ bi' = 0
    /\ invocations' = <<>>
    /\ pc' = "for"
    /\ UNCHANGED <<text, data_iterator, configVars, retries, success, result>>

\* what next(batches_iterator) gives, reading the generator of _prepare
BatchesFromPrepare ==
    BatchesNext(batches_at, PrepareGenerator, i, batch, batch_size)

\* both generators go to the state r that next(batches_iterator) leaves
\* them in; the chunks taken from _prepare are those of the batch it yields
GeneratorsAdvance(r) ==
    /\ batches_at' = r.at
    /\ i' = r.i
    /\ batch' = r.batch
    /\ yielded' = yielded \o r.out
    /\ prepare_at' = r.it.at
    /\ paragraphs' = r.it.paragraphs
    /\ paragraph' = r.it.paragraph
    /\ tmp' = r.it.tmp
    /\ chunks' = chunks \o Flatten(r.out)

\* for batch in batches_iterator: retries = 0; success = False
ForBatch ==
    /\ pc = "for"
    /\ BatchesFromPrepare.out # <<>>
    /\ LET r == BatchesFromPrepare
       IN  GeneratorsAdvance(r) /\ batches' = batches \o r.out
    /\ invocations' = Append(invocations, <<>>)
    /\ bi' = bi + 1
    /\ retries' = 0
    /\ success' = FALSE
    /\ pc' = "while"
    /\ UNCHANGED <<text, data_iterator, configVars, answer,
                   len_of_translated_text, len_of_text, result, log>>

\* the for loop is exhausted: return answer
ReturnAnswer ==
    /\ pc = "for"
    /\ BatchesFromPrepare.out = <<>>
    /\ LET r == BatchesFromPrepare IN GeneratorsAdvance(r)
    /\ result' = Str(answer)
    /\ pc' = "returned"
    /\ UNCHANGED <<text, data_iterator, configVars, batches, bi, answer,
                   len_of_translated_text, len_of_text, retries, success,
                   invocations, log>>

\* a loop condition that has lost its bound on retries
WhileConditionUnbounded(r, ok) == ~ ok

\* while retries < self._max_retries and not success
WhileCondition(r, ok) == r < max_retries /\ ~ ok

WhileEnter ==
    /\ pc = "while"
    /\ WhileCondition(retries, success)
    /\ pc' = "try"
    /\ UNCHANGED <<prepareVars, batcherVars, configVars, runVars>>

WhileExit ==
    /\ pc = "while"
    /\ ~ WhileCondition(retries, success)
    /\ pc' = "for"
    /\ UNCHANGED <<prepareVars, batcherVars, configVars, runVars>>

\* a handler that always retries and never gives up
MayRetryAlways(r) == TRUE

\* if retries < self._max_retries (in the handler, after retries += 1)
MayRetry(r) == r < max_retries

\* an error record that numbers the attempts from 0
AttemptRecordFromZero(r) == Error("attempt", r - 1, max_retries)

\* logging.error("Попытка {retries} из {self._max_retries}."), after
\* retries += 1
AttemptRecord(r) == Error("attempt", r, max_retries)

\* except Exception as e: ... , entered with answer and
\* len_of_translated_text as the try block left them
Except(ans, ltt) ==
    /\ answer' = ans
    /\ len_of_translated_text' = ltt
    /\ retries' = retries + 1
    /\ IF MayRetry(retries + 1)
       THEN /\ log' = log \o << Error("translation error", 0, 0),
                                AttemptRecord(retries + 1) >>
            /\ pc' = "sleep"
            /\ result' = result
       ELSE /\ log' = log \o << Error("translation error", 0, 0),
                                AttemptRecord(retries + 1),
                                Error("retries exceeded", 0, 0) >>
            /\ pc' = "returned"
            /\ result' = None
    /\ UNCHANGED <<prepareVars, batcherVars, configVars, batches, bi,
                   len_of_text, success>>

\* answer += "\n".join(self._translator.translate_batch(batch))
Appended(ans, translated) == Concat(ans, JoinNL(translated))

\* len_of_translated_text += sum(blocks_sizes) + len("\n") * (len(batch) - 1)
Counted(ltt, b) == ltt + SumLen(b) + 1 * (Len(b) - 1)

\* a try block that appends the batch to answer before the call raises
AnswerOnRaisePartial(ans, b) == Appended(ans, b)

\* answer when translate_batch raises: the call is evaluated before the +=
\* of the same statement assigns, so the assignment never happens
AnswerOnRaise(ans, b) == ans

\* translate_batch raises: nothing of the try block after the call runs
TranslateRaises ==
    /\ pc = "try"
    /\ invocations' = [invocations EXCEPT ![bi] = Append(@, "raised")]
    /\ Except(AnswerOnRaise(answer, batches[bi]), len_of_translated_text)

\* translate_batch returns: the rest of the try block runs; the progress
\* record divides by len_of_text, and a ZeroDivisionError raised there is
\* caught by the same handler
TranslateReturns ==
    /\ pc = "try"
    /\ invocations' = [invocations EXCEPT ![bi] = Append(@, "returned")]
    /\ IF len_of_text = 0
       THEN Except(Appended(answer, translate_batch(batches[bi])),
                   Counted(len_of_translated_text, batches[bi]))
       ELSE /\ answer' = Appended(answer, translate_batch(batches[bi]))
            /\ len_of_translated_text' = Counted(len_of_translated_text, batches[bi])
            /\ log' = Append(log, Info("translated", len_of_translated_text', len_of_text))
            /\ success' = TRUE
            /\ pc' = "while"
            /\ UNCHANGED <<prepareVars, batcherVars, configVars, batches, bi,
                           len_of_text, retries, result>>

\* time.sleep(10), then back to the while statement
Sleep ==
    /\ pc = "sleep"
    /\ log' = Append(log, Slept(SleepSeconds))
    /\ pc' = "while"
    /\ UNCHANGED <<prepareVars, batcherVars, configVars, batches, bi, answer,
                   len_of_translated_text, len_of_text, retries, success,
                   result, invocations>>

Next ==
    \/ RunShortCircuit
    \/ RunTranslate
    \/ ForBatch
    \/ ReturnAnswer
    \/ WhileEnter
    \/ WhileExit
    \/ TranslateRaises
    \/ TranslateReturns
    \/ Sleep

Spec == Init /\ [][Next]_vars

(***************************************************************************)
(* Several calls of run on one Translator instance.  A call that has       *)
(* returned is followed by another call with a new text.  The model keeps  *)
(* what the locals of the previous call held, so that a call starts from   *)
(* fresh values only through the assignments of the code; the histories    *)
(* log and invocations are those of the call in progress.                  *)
(***************************************************************************)
RerunTexts ==
    { EmptyStr,
      Rep("7", 1) \o Rep(".", 1),
      Rep("a", 1),
      Rep("a", 4998),
      JoinNL(<<Rep("a", 2499), Rep("a", 2499)>>) }

InitRuns ==
    /\ pc = "run"
    /\ text \in RerunTexts
    /\ batch_size \in 1..MaxBatchSize
    /\ max_retries \in 0..MaxRetries
    /\ log_prefix = ">"
    /\ translator = "en_ru"
    /\ prepare_at = "created" /\ paragraphs = <<>> /\ paragraph = EmptyStr
    /\ tmp = EmptyStr /\ chunks = <<>>
    /\ IdleBatcher /\ IdleRun

\* the caller calls run again on the same instance
RunAgain ==
    /\ pc = "returned"
    /\ text' \in RerunTexts
    /\ result' = Pending
    /\ invocations' = <<>>
    /\ log' = <<>>
    /\ pc' = "run"
    /\ UNCHANGED <<prepare_at, paragraphs, paragraph, tmp, chunks, batcherVars,
                   configVars, batches, bi, answer, len_of_translated_text,
                   len_of_text, retries, success>>

NextRuns == Next \/ RunAgain

SpecRuns == InitRuns /\ [][NextRuns]_vars


(***************************************************************************)
(* Properties of _prepare, checked under SpecPrepare.                      *)
(***************************************************************************)
\* C1: joining the chunks produced by _prepare(text) with a single "\n"
\* between consecutive chunks yields exactly text, for every text.
C1_RoundTrip == pc = "prepare_done" => JoinNL(chunks) = text

\* C2: every chunk produced by _prepare has length <= 5000, except a chunk
\* that consists of one single paragraph whose own length exceeds 5000.
C2_ChunkSizeBound ==
    \A j \in 1..Len(chunks) :
        \/ StrLen(chunks[j]) <= ChunkLimit
        \/ Len(SplitNL(chunks[j])) = 1 /\ StrLen(chunks[j]) > ChunkLimit

\* a finished split holding an oversized single-paragraph chunk and a chunk
\* of several paragraphs filled to the edge of the flush condition
C2_Witness ==
    /\ pc = "prepare_done"
    /\ \E j \in 1..Len(chunks) :
           Len(SplitNL(chunks[j])) = 1 /\ StrLen(chunks[j]) > ChunkLimit
    /\ \E j \in 1..Len(chunks) :
           Len(SplitNL(chunks[j])) > 1 /\ StrLen(chunks[j]) = ChunkLimit - 3

\* C3: every chunk produced by _prepare is the "\n"-join of a contiguous run
\* of whole paragraphs of text.split("\n"), and a paragraph longer than 5000
\* characters is in a chunk that contains that paragraph alone.
C3_ParagraphAligned ==
    pc = "prepare_done" =>
        \A j \in 1..Len(chunks) :
            \E lo, hi \in 1..Len(SplitNL(text)) :
                /\ lo <= hi
                /\ chunks[j] = JoinNL(SubSeq(SplitNL(text), lo, hi))
                /\ \A k \in lo..hi :
                       StrLen(SplitNL(text)[k]) > ChunkLimit => lo = hi

(***************************************************************************)
(* Properties of _get_batches, checked under SpecBatches.                  *)
(***************************************************************************)
\* C4: for every chunk sequence and every batch_size >= 1 the batches
\* yielded by _get_batches concatenate, in order, to the input sequence;
\* every batch but the last has exactly batch_size chunks, the last has
\* between 1 and batch_size, and an empty input yields no batch.
C4_BatcherContract ==
    pc = "batches_done" =>
        /\ Flatten(yielded) = data_iterator
        /\ \A j \in 1..(Len(yielded) - 1) : Len(yielded[j]) = batch_size
        /\ yielded # <<>> => Len(yielded[Len(yielded)]) \in 1..batch_size
        /\ data_iterator = <<>> => yielded = <<>>

\* a finished batching with a full batch followed by a shorter last batch
C4_Witness ==
    /\ pc = "batches_done"
    /\ Len(yielded) >= 2
    /\ Len(yielded[Len(yielded)]) < batch_size


(***************************************************************************)
(* Properties of run, checked under Spec.                                  *)
(***************************************************************************)
\* the number of translate_batch invocations on batch k so far
Calls(k) == Len(invocations[k])

\* the number of those that raised
Raised(k) == Cardinality({ n \in 1..Len(invocations[k]) : invocations[k][n] = "raised" })

\* list(batches_iterator): all the batches of the text of this call
AllBatches == _get_batches(_prepare(text), batch_size)

\* run took the _translate branch
Delegated == pc # "run" /\ ~ is_digits_and_punctuation(text)

\* C5: for every text all of whose characters are digits, whitespace or the
\* punctuation . , ; : ! ? - ( ) [ ] { } ' ", run returns the text unchanged
\* and never invokes translate_batch.
C5_ShortCircuit ==
    (\A j \in 1..Len(text) : text[j][1] \in PatternClass) =>
        /\ \A k \in 1..Len(invocations) : Calls(k) = 0
        /\ pc = "returned" => result = Str(text)

\* C6: for every text that is not short-circuited and every max_retries, if
\* every translate_batch invocation raises then run invokes it exactly
\* max_retries times on the first batch, never on a later batch, and
\* returns None.
C6_RetryExhaustion ==
    (/\ pc = "returned"
     /\ Delegated
     /\ \A k \in 1..Len(invocations) : Raised(k) = Calls(k)) =>
        /\ result = None
        /\ Calls(1) = max_retries
        /\ \A k \in 2..Len(invocations) : Calls(k) = 0

RECURSIVE AnswerRec(_, _)
\* the translations of the batches bs appended to ans, one batch after another
AnswerRec(bs, ans) ==
    IF bs = <<>> THEN ans
    ELSE AnswerRec(Tail(bs), Concat(ans, JoinNL(translate_batch(Head(bs)))))

\* C7: with max_retries >= 2, if the first translate_batch invocation on a
\* batch raises and the second returns, run uses exactly 2 invocations for
\* that batch, goes on to the following batches, and a text it returns is
\* the one it returns when no invocation raises.
C7_RetryRecovery ==
    \A k \in 1..Len(invocations) :
        (/\ max_retries >= 2
         /\ Calls(k) >= 2
         /\ invocations[k][1] = "raised"
         /\ invocations[k][2] = "returned") =>
            /\ Calls(k) = 2
            /\ ~ (pc = "returned" /\ result = None /\ bi = k)
            /\ (pc = "returned" /\ result.kind = "str") =>
                   result.value = AnswerRec(batches, EmptyStr)

\* C8: when every batch has been translated, run returns the translations of
\* all chunks in chunk order with exactly one "\n" between every two
\* consecutive chunk translations, also across a batch boundary.
C8_Reassembly ==
    (/\ pc = "returned"
     /\ Delegated
     /\ result.kind = "str"
     /\ \A k \in 1..Len(invocations) :
            \E n \in 1..Calls(k) : invocations[k][n] = "returned") =>
        result.value = JoinNL(translate_batch(chunks))

\* every attempt on the current batch has failed and none is left
Exhausted == Delegated /\ bi >= 1 /\ ~ success /\ retries >= 1 /\ retries >= max_retries

\* C9: once all attempts for a batch k have failed, run has returned None,
\* not the text accumulated from the batches before k, and no
\* translate_batch invocation for a batch after k has occurred (no batch
\* after k has even been taken from the iterator).
C9_FailFast ==
    Exhausted =>
        /\ pc = "returned"
        /\ result = None
        /\ \A k \in (bi + 1)..Len(invocations) : Calls(k) = 0
        /\ Len(batches) = bi

\* run has failed on a batch that has translated batches before it and
\* untried batches after it
C9_Witness ==
    /\ Exhausted
    /\ pc = "returned"
    /\ bi >= 2
    /\ bi < Len(AllBatches)
    /\ answer # EmptyStr

\* C10: run returns None only if some batch had max_retries raising
\* translate_batch invocations; if every invocation returns, run returns
\* text.
C10_FailureOnlyAfterExhaustedRetries ==
    /\ (pc = "returned" /\ result = None) =>
           \E k \in 1..Len(invocations) : Raised(k) >= max_retries
    /\ (pc = "returned" /\ \A k \in 1..Len(invocations) : Raised(k) = 0) =>
           result.kind = "str"


\* the number of translate_batch invocations on batch k that returned
Returned(k) == Cardinality({ n \in 1..Len(invocations[k]) : invocations[k][n] = "returned" })

\* C11: if run returns text for an input that is not short-circuited, then
\* on every batch exactly one translate_batch invocation returned and its
\* result is in the output exactly once, whatever max_retries is.
C11_SuccessMeansAllTranslated ==
    (pc = "returned" /\ Delegated /\ result.kind = "str") =>
        /\ \A k \in 1..Len(invocations) : Returned(k) = 1
        /\ result.value = AnswerRec(batches, EmptyStr)


\* C12: translate_batch invocations are issued in batch order: a batch is
\* invoked only once it is the current batch and an invocation has returned
\* on every batch before it, and the chunk lists of the batches stay the
\* same from one invocation to the next (a batch taken from the iterator
\* never changes afterwards, and the list handed to translate_batch is the
\* current batch as the generator yielded it).
C12_SequentialSubmission ==
    /\ [](Delegated =>
            \A k \in 1..Len(invocations) :
                Calls(k) > 0 =>
                    /\ k <= bi
                    /\ \A j \in 1..(k - 1) : Returned(j) >= 1)
    /\ [](pc \in {"while", "try", "sleep"} =>
            /\ bi = Len(batches)
            /\ batches[bi] = batch)
    /\ [](pc = "try" => batches = SubSeq(AllBatches, 1, bi))
    /\ [][pc # "run" => SubSeq(batches', 1, Len(batches)) = batches]_vars

\* the second batch is being invoked after the first needed a retry
C12_Witness ==
    /\ Delegated
    /\ bi >= 2
    /\ Calls(bi) >= 1
    /\ Calls(1) >= 2


\* the positions of the log records after the last progress record
SinceLastProgress ==
    { n \in 1..Len(log) :
        \A q \in n..Len(log) : log[q].msg # "translated" }

\* C13: exactly one delay of 10 lies between each failed translate_batch
\* attempt on a batch and the next attempt on that batch; no delay follows a
\* successful attempt and none follows the final failed attempt, so an
\* exhausted batch has had exactly max_retries - 1 delays when None is
\* returned.
C13_DelayPlacement ==
    /\ pc = "sleep" =>
           /\ Calls(bi) >= 1
           /\ invocations[bi][Calls(bi)] = "raised"
    /\ \A n \in 1..Len(log) :
           /\ log[n].level = "sleep" =>
                  /\ log[n].a = SleepSeconds
                  /\ n > 1
                  /\ log[n - 1].msg = "attempt"
                  /\ log[n - 1].a < log[n - 1].b
           /\ (log[n].msg = "attempt" /\ n < Len(log)) =>
                  IF log[n].a < log[n].b
                  THEN log[n + 1] = Slept(SleepSeconds)
                  ELSE log[n + 1].level # "sleep"
    /\ (pc = "returned" /\ result = None) =>
           Cardinality({ n \in SinceLastProgress : log[n].level = "sleep" })
               = max_retries - 1


\* the largest number of steps one batch can take: the for step, and for
\* each attempt the while step, the try step and the sleep
StepsPerBatch == 3 * max_retries + 2

\* the steps left in the current batch at the while statement
WhileRank == IF success THEN 1 ELSE 3 * (max_retries - retries) + 1

\* a bound on the number of chunks _prepare can still yield, counting its
\* end as one more step: every next() on the generator lowers it
ChunksLeft ==
    IF prepare_at = "created" THEN Len(SplitNL(text)) + 2
    ELSE IF prepare_at = "line 59" THEN Len(paragraphs) + 2
    ELSE IF prepare_at = "line 62" THEN 1
    ELSE 0

\* a bound on the number of steps run can still take: the variant of the
\* for loop, which takes at least one chunk for every batch, and of the
\* while loop inside it
Rank ==
    IF pc = "returned" THEN 0
    ELSE IF pc = "run" THEN (Len(SplitNL(text)) + 2) * StepsPerBatch + 2
    ELSE ChunksLeft * StepsPerBatch + 1
         + (IF pc = "while" THEN WhileRank
            ELSE IF pc = "try" THEN 3 * (max_retries - retries)
            ELSE IF pc = "sleep" THEN 3 * (max_retries - retries) + 2
            ELSE 0)

\* each statement of run that is not its return has a step to take: the
\* guards of the two steps at "run", at "for" and at "while" are
\* complementary, and the try block works on a batch that exists
CanStep ==
    \/ pc \in {"run", "for", "while", "sleep"}
    \/ pc = "try" /\ bi \in 1..Len(batches)

\* C14: run terminates, whatever translate_batch does on each invocation
\* (a run that has not returned can take a step, and every step lowers the
\* bound Rank on the steps left, which is never negative); the invocations
\* on one batch never exceed max_retries, and the invocations of the whole
\* run never exceed max_retries times the number of batches taken, which
\* are among the batches of the text.
C14_BoundedAttempts ==
    /\ [](Delegated =>
            /\ \A k \in 1..Len(invocations) : Calls(k) <= max_retries
            /\ Len(Flatten(invocations)) <= max_retries * Len(batches))
    /\ [](pc = "returned" => Len(batches) <= Len(AllBatches))
    /\ [](Rank >= 0 /\ (pc # "returned" => CanStep))
    /\ [][Rank' < Rank]_vars

\* a finished run that used every attempt of a batch after an earlier batch
C14_Witness ==
    /\ pc = "returned"
    /\ Delegated
    /\ max_retries >= 2
    /\ bi >= 2
    /\ Calls(bi) = max_retries

\* the progress records of the run so far, in the order they were logged
ProgressReports == SelectSeq(log, LAMBDA r : r.msg = "translated")

\* int(len_of_translated_text / len_of_text * 100) of a progress record is
\* 100, or more than 100; at the lengths of a text the floating-point
\* quotient falls on the same side of 100 and of 101 as the exact one
ShowsHundred(r) == r.b <= r.a /\ r.a * 100 < r.b * 101
ShowsOverHundred(r) == r.a * 100 >= r.b * 101

\* C15: on every successful run that was not short-circuited there is one
\* progress report per batch, the cumulative translated character count
\* ends equal to the input character count, and the last report shows 100.
C15_ProgressCompletes ==
    (pc = "returned" /\ Delegated /\ result.kind = "str") =>
        /\ Len(ProgressReports) = Len(batches)
        /\ len_of_translated_text = StrLen(text)
        /\ ProgressReports # <<>>
        /\ ShowsHundred(ProgressReports[Len(ProgressReports)])

\* C16: the cumulative translated character count never decreases and
\* never exceeds the input character count, and no progress report shows
\* more than 100.
C16_ProgressBounded ==
    /\ [](Delegated =>
            /\ len_of_translated_text <= StrLen(text)
            /\ \A n \in 1..Len(ProgressReports) :
                   ~ ShowsOverHundred(ProgressReports[n]))
    /\ [][len_of_translated_text' >= len_of_translated_text]_vars

\* the invocations of the run so far that raised
Failures == Len(SelectSeq(Flatten(invocations), LAMBDA o : o = "raised"))

\* C17: a failed attempt (a step of the except handler, which is the only
\* step that increments retries; every raising invocation is one) leaves
\* answer and the cumulative translated character count as they were
\* before the attempt and adds no progress report.
C17_FailedAttemptFrame ==
    [][(retries' = retries + 1 \/ Failures' > Failures) =>
           /\ retries' = retries + 1
           /\ answer' = answer
           /\ len_of_translated_text' = len_of_translated_text
           /\ ProgressReports' = ProgressReports]_vars

\* a raising invocation has just been handled on a later batch, with
\* output and progress of an earlier batch already accumulated
C17_Witness ==
    /\ pc \in {"sleep", "returned"}
    /\ Delegated
    /\ bi >= 2
    /\ Calls(bi) >= 1
    /\ invocations[bi][Calls(bi)] = "raised"
    /\ answer # EmptyStr
    /\ len_of_translated_text > 0
    /\ Len(ProgressReports) >= 1

\* the positions in log of the error records that carry an attempt number
AttemptReports == { n \in 1..Len(log) : log[n].msg = "attempt" }

\* a progress record lies between positions p and q of log
ProgressBetween(p, q) == \E n \in (p + 1)..(q - 1) : log[n].msg = "translated"

\* the attempt records logged before position q with no progress record
\* in between, that is, for the same batch
SameBatchBefore(q) == { p \in AttemptReports : p < q /\ ~ ProgressBetween(p, q) }

\* C18: every failed attempt logs an error record carrying the attempt
\* number, which counts 1, 2, ... within a batch and never exceeds
\* max_retries; and whenever run has returned None, the exhausted-retries
\* error record is in the log of that run, after the last attempt record.
C18_FailuresReported ==
    /\ [](\A q \in AttemptReports :
            /\ log[q].level = "error"
            /\ log[q].a \in 1..max_retries
            /\ log[q].a = Cardinality(SameBatchBefore(q)) + 1)
    /\ [](Delegated => Cardinality(AttemptReports) >= Failures)
    /\ []((pc = "returned" /\ result = None) =>
            /\ log[Len(log)] = Error("retries exceeded", 0, 0)
            /\ log[Len(log) - 1].msg = "attempt")
    /\ [][Failures' > Failures =>
            /\ Len(log') >= Len(log) + 2
            /\ log'[Len(log) + 2] = Error("attempt", Calls(bi)', max_retries)]_vars

\* run has returned None after three reported attempts on a later batch
C18_Witness ==
    /\ pc = "returned"
    /\ result = None
    /\ bi >= 2
    /\ Raised(bi) = 3
    /\ Cardinality(AttemptReports) >= 4

\* C19: for every two consecutive chunks c, c' yielded by _prepare,
\* len(c) + 1 + len(first paragraph of c') >= 4997: a chunk is closed before
\* a paragraph only when the buffer cannot take the paragraph within the
\* limit.
C19_GreedyChunking ==
    \A j \in 1..(Len(chunks) - 1) :
        StrLen(chunks[j]) + 1 + StrLen(Head(SplitNL(chunks[j + 1])))
            >= ChunkLimit - 3

\* _prepare has finished with a boundary between two chunks that are not
\* empty at the smallest length at which the flush condition closes a chunk
\* (there tmp is the chunk and its "\n", and the condition needs
\* len(paragraph) + len(tmp) to reach 4998)
C19_Witness ==
    /\ pc = "prepare_done"
    /\ \E j \in 1..(Len(chunks) - 1) :
           /\ chunks[j] # EmptyStr
           /\ chunks[j + 1] # EmptyStr
           /\ StrLen(chunks[j]) + 1 + StrLen(Head(SplitNL(chunks[j + 1])))
                  = ChunkLimit - 2

RECURSIVE AppendTimes(_, _, _)
\* s appended n times to ans
AppendTimes(ans, s, n) ==
    IF n = 0 THEN ans ELSE AppendTimes(Concat(ans, s), s, n - 1)

RECURSIVE AnswerOf(_, _, _)
\* answer as the invocations of this call build it: the translation of
\* batch k of bs is appended once for every invocation on it that returned
AnswerOf(bs, k, ans) ==
    IF k > Len(bs) THEN ans
    ELSE AnswerOf(bs, k + 1,
                  AppendTimes(ans, JoinNL(translate_batch(bs[k])), Returned(k)))

\* the passes through the except handler for batch k in this call: the
\* invocations that raised, and for the empty text every invocation
HandlerPasses(k) == IF StrLen(text) = 0 THEN Calls(k) ELSE Raised(k)

\* what run returns, from its text, the configuration and the outcomes of
\* the invocations of this call alone
RunOutcome ==
    IF is_digits_and_punctuation(text) THEN Str(text)
    ELSE IF \E k \in 1..Len(invocations) :
                Calls(k) >= 1 /\ HandlerPasses(k) = max_retries
         THEN None
         ELSE Str(AnswerOf(AllBatches, 1, EmptyStr))

\* C20: no step of run changes batch_size, max_retries or log_prefix; the
\* accumulator and the progress counter are fresh when a call reaches its
\* for statement and the retry counter is fresh at each batch, whatever an
\* earlier call left; and what a call returns is determined by its text,
\* the configuration and the outcomes of its own invocations.
C20_RunsIndependent ==
    /\ [][UNCHANGED configVars]_vars
    /\ [][(pc = "run" /\ pc' = "for") =>
            /\ answer' = EmptyStr
            /\ len_of_translated_text' = 0
            /\ bi' = 0
            /\ batches' = <<>>
            /\ prepare_at' = "created"
            /\ batches_at' = "created"]_vars
    /\ [][(pc = "for" /\ pc' = "while") => retries' = 0 /\ ~ success']_vars
    /\ [](pc = "returned" => result = RunOutcome)

\* a call on a text of two batches has reached its for statement with a
\* fresh accumulator, a fresh progress counter and new generators, while
\* the retry counter and the success flag are still those of an earlier
\* call that failed
C20_Witness ==
    /\ pc = "for"
    /\ Delegated
    /\ bi = 0
    /\ Len(AllBatches) = 2
    /\ batches = <<>>
    /\ invocations = <<>>
    /\ answer = EmptyStr
    /\ len_of_translated_text = 0
    /\ retries = max_retries
    /\ max_retries >= 2
    /\ ~ success

====
